---- MODULE Spec2Model ----
(***************************************************************************)
(* Model of scrape.py: the Richmond active-calls scraper.                  *)
(*                                                                         *)
(* A Python str is a sequence of one-character strings.  A Python value    *)
(* that may be None is a record: None, Str(s) or Num(n).  A coordinate is  *)
(* kept in arc-seconds (decimal degrees times 3600), so that the           *)
(* sexagesimal conversion stays in the integers.                           *)
(***************************************************************************)
EXTENDS Integers, Sequences, FiniteSets, TLC

VARIABLES
    table,               \* rows of the fetched table after the header row
    pc,                  \* position of scrape_incidents
    idx,                 \* index of the row the for loop is at
    incident,            \* the dict of the row being processed
    cleaned_street,      \* local of the same name
    full_address,        \* local of the same name
    incidents,           \* the list being built
    result,              \* what scrape_incidents returned
    log,                 \* the external calls and sleeps made so far
    response,            \* argument of a stand-alone get_nearest_intersection call
    label                \* what that call returned

vars == <<table, pc, idx, incident, cleaned_street, full_address, incidents,
          result, log, response, label>>

----------------------------------------------------------------------------
(* Bounds of the model. *)

MaxRows == 2

MaxFrags == 3

----------------------------------------------------------------------------
(* Python values. *)

None == [k |-> "none"]

Missing == [k |-> "missing"]

Str(s) == [k |-> "str", v |-> s]

Num(n) == [k |-> "num", v |-> n]

Truthy(x) == x.k = "str" /\ x.v # <<>>

----------------------------------------------------------------------------
(* Python str and re operations, as the code uses them. *)

IsSpace(c) == c \in {" ", "\n", "\t"}

RECURSIVE LStrip(_)
LStrip(s) ==
    IF s # <<>> /\ IsSpace(Head(s)) THEN LStrip(Tail(s)) ELSE s

RECURSIVE RStrip(_)
RStrip(s) ==
    IF s # <<>> /\ IsSpace(s[Len(s)]) THEN RStrip(SubSeq(s, 1, Len(s) - 1)) ELSE s

Strip(s) == RStrip(LStrip(s))

StartsWithAt(s, p, i) ==
    /\ i >= 1
    /\ i + Len(p) - 1 <= Len(s)
    /\ SubSeq(s, i, i + Len(p) - 1) = p

StartsWith(s, p) == StartsWithAt(s, p, 1)

\* Index of the first occurrence of p in s, 0 when there is none.
Find(s, p) ==
    LET hits == {i \in 1..Len(s) : StartsWithAt(s, p, i)}
    IN  IF hits = {} THEN 0 ELSE CHOOSE i \in hits : \A j \in hits : i <= j

Contains(s, p) == Find(s, p) # 0

\* s.replace(old, new): every occurrence, left to right, not overlapping.
RECURSIVE ReplaceAll(_, _, _)
ReplaceAll(s, old, new) ==
    LET i == Find(s, old)
    IN  IF i = 0
        THEN s
        ELSE SubSeq(s, 1, i - 1) \o new
                 \o ReplaceAll(SubSeq(s, i + Len(old), Len(s)), old, new)

\* s.split(sep) for a non-empty sep.
RECURSIVE Split(_, _)
Split(s, sep) ==
    LET i == Find(s, sep)
    IN  IF i = 0
        THEN <<s>>
        ELSE <<SubSeq(s, 1, i - 1)>> \o Split(SubSeq(s, i + Len(sep), Len(s)), sep)

\* The positions where the regex anchor $ matches: the end of the string, and
\* just before a newline that ends the string.
DollarEnds(s) ==
    {Len(s)} \cup (IF s # <<>> /\ s[Len(s)] = "\n" THEN {Len(s) - 1} ELSE {})

\* re.sub(r'\s+RICH$', '', s)
SubRichSuffix(s) ==
    LET rich == <<"R","I","C","H">>
        starts == {i \in 1..Len(s) :
                      \E j \in i..Len(s) :
                          /\ \A m \in i..j : IsSpace(s[m])
                          /\ StartsWithAt(s, rich, j + 1)
                          /\ j + 4 \in DollarEnds(s)}
    IN  IF starts = {}
        THEN s
        ELSE LET i == CHOOSE a \in starts : \A b \in starts : a <= b
                 e == CHOOSE d \in DollarEnds(s) : StartsWithAt(s, rich, d - 3)
             IN  SubSeq(s, 1, i - 1) \o SubSeq(s, e + 1, Len(s))

\* re.sub(r'\s(NB|SB)$', '', s)
SubDirectional(s) ==
    LET starts == {i \in 1..Len(s) :
                      /\ IsSpace(s[i])
                      /\ \/ StartsWithAt(s, <<"N","B">>, i + 1)
                         \/ StartsWithAt(s, <<"S","B">>, i + 1)
                      /\ i + 2 \in DollarEnds(s)}
    IN  IF starts = {}
        THEN s
        ELSE LET i == CHOOSE a \in starts : \A b \in starts : a <= b
             IN  SubSeq(s, 1, i - 1) \o SubSeq(s, i + 3, Len(s))

\* First index at or after i whose character is c, Len(s) + 1 when none.
RunEnd(s, i, c) ==
    LET stops == {j \in i..Len(s) : s[j] = c}
    IN  IF stops = {} THEN Len(s) + 1 ELSE CHOOSE j \in stops : \A m \in stops : j <= m

\* The match of r'LL\(([^,]+),([^)]+)\)' that starts at i, if there is one.
LLMatchAt(s, i) ==
    IF ~StartsWithAt(s, <<"L","L","(">>, i)
    THEN [ok |-> FALSE]
    ELSE LET a  == i + 3
             e1 == RunEnd(s, a, ",")
         IN  IF e1 = a \/ e1 > Len(s)
             THEN [ok |-> FALSE]
             ELSE LET b  == e1 + 1
                      e2 == RunEnd(s, b, ")")
                  IN  IF e2 = b \/ e2 > Len(s)
                      THEN [ok |-> FALSE]
                      ELSE [ok |-> TRUE,
                            g1 |-> SubSeq(s, a, e1 - 1),
                            g2 |-> SubSeq(s, b, e2 - 1)]

\* re.search(r'LL\(([^,]+),([^)]+)\)', s): the leftmost match.
LLSearch(s) ==
    LET hits == {i \in 1..Len(s) : LLMatchAt(s, i).ok}
    IN  IF hits = {}
        THEN [ok |-> FALSE]
        ELSE LLMatchAt(s, CHOOSE i \in hits : \A j \in hits : i <= j)

Digits == <<"0","1","2","3","4","5","6","7","8","9">>

IsDigit(c) == \E d \in 1..10 : Digits[d] = c

DigitVal(c) == (CHOOSE d \in 1..10 : Digits[d] = c) - 1

RECURSIVE DigitsVal(_)
DigitsVal(s) ==
    IF s = <<>> THEN 0 ELSE 10 * DigitsVal(SubSeq(s, 1, Len(s) - 1)) + DigitVal(s[Len(s)])

\* float(p) on the tokens the model draws: surrounding whitespace, a sign and
\* decimal digits.  Num(n) for a number, None where Python raises ValueError.
ParseFloat(p) ==
    LET t    == Strip(p)
        sign == t # <<>> /\ Head(t) \in {"-", "+"}
        body == IF sign THEN Tail(t) ELSE t
    IN  IF body = <<>> \/ \E i \in 1..Len(body) : ~IsDigit(body[i])
        THEN None
        ELSE Num(IF sign /\ Head(t) = "-" THEN -DigitsVal(body) ELSE DigitsVal(body))

Abs(n) == IF n < 0 THEN -n ELSE n

----------------------------------------------------------------------------
(* The pure parts of scrape_incidents and get_nearest_intersection. *)

\* Variant: the row test written with > in place of >=.
MinCellsStrict == 7 + 1

MinCells == 7

\* Variant: only the first '/' is replaced (str.replace with count 1).
CleanupFirstSlash(street) ==
    LET noblk == ReplaceAll(street, <<"-","B","L","K">>, <<>>)
        i     == Find(noblk, <<"/">>)
        slash == IF i = 0
                 THEN noblk
                 ELSE SubSeq(noblk, 1, i - 1) \o <<" ","a","n","d"," ">>
                          \o SubSeq(noblk, i + 1, Len(noblk))
    IN  Strip(SubRichSuffix(slash))

\* cleaned_street of a street text (the two assignments before the LL check).
Cleanup(street) ==
    Strip(SubRichSuffix(
        ReplaceAll(ReplaceAll(street, <<"-","B","L","K">>, <<>>),
                   <<"/">>, <<" ","a","n","d"," ">>)))

\* The nested function dms_to_dd, in arc-seconds: Num(n), or None where the code raises
\* ValueError (a part float() rejects) or IndexError (fewer than three parts).
dms_to_dd(dms) ==
    LET parts == Split(dms, <<":">>)
        vals  == [i \in 1..Len(parts) |-> ParseFloat(parts[i])]
    IN  IF \E i \in 1..Len(parts) : vals[i] = None
        THEN None
        ELSE IF Len(parts) < 3
        THEN None
        ELSE LET dd == Abs(vals[1].v) * 3600 + vals[2].v * 60 + vals[3].v
             IN  Num(IF vals[1].v < 0 THEN -dd ELSE dd)

\* Variant: the except clause resets lat only.
DecodeLLNoReset(inc, m) ==
    LET lng == dms_to_dd(Strip(m.g1))
    IN  IF lng = None
        THEN [inc EXCEPT !.lat = None, !.lng = None]
        ELSE LET lat == dms_to_dd(Strip(m.g2))
             IN  IF lat = None
                 THEN [inc EXCEPT !.lat = None, !.lng = lng]
                 ELSE [inc EXCEPT !.lat = lat, !.lng = lng]

\* The try block that decodes the two groups of a matched LL(...) tag: lng is
\* assigned first, lat second, and the except clause resets both.
DecodeLL(inc, m) ==
    LET lng == dms_to_dd(Strip(m.g1))
    IN  IF lng = None
        THEN [inc EXCEPT !.lat = None, !.lng = None]
        ELSE LET lat == dms_to_dd(Strip(m.g2))
             IN  IF lat = None
                 THEN [inc EXCEPT !.lat = None, !.lng = None]
                 ELSE [inc EXCEPT !.lat = lat, !.lng = lng]

\* The LL branch up to the reverse lookup: the incident with lat and lng set.
ParseLL(inc, cleaned) ==
    LET m == LLSearch(cleaned)
    IN  IF m.ok THEN DecodeLL(inc, m) ELSE [inc EXCEPT !.lat = None, !.lng = None]

\* Variant: the BETWEEN branch is tested before the ' and ' branch.
address_to_geocode_between_first(cleaned) ==
    IF /\ Contains(cleaned, <<"R","I","C","H",":"," ","@">>)
       /\ Contains(cleaned, <<"B","E","T","W","E","E","N">>)
    THEN LET at == Split(cleaned, <<"@">>)
         IN  IF Len(at) < 2
             THEN cleaned
             ELSE SubDirectional(
                      Strip(Split(at[2], <<"B","E","T","W","E","E","N">>)[1]))
    ELSE IF Contains(cleaned, <<" ","a","n","d"," ">>)
    THEN Split(cleaned, <<" ","a","n","d"," ">>)[1]
    ELSE cleaned

\* address_to_geocode of a cleaned street that is not an LL tag.
address_to_geocode(cleaned) ==
    IF Contains(cleaned, <<" ","a","n","d"," ">>)
    THEN Split(cleaned, <<" ","a","n","d"," ">>)[1]
    ELSE IF /\ Contains(cleaned, <<"R","I","C","H",":"," ","@">>)
            /\ Contains(cleaned, <<"B","E","T","W","E","E","N">>)
    THEN LET at == Split(cleaned, <<"@">>)
         IN  IF Len(at) < 2
             THEN cleaned
             ELSE SubDirectional(
                      Strip(Split(at[2], <<"B","E","T","W","E","E","N">>)[1]))
    ELSE cleaned

FullAddress(cleaned) ==
    address_to_geocode(cleaned) \o <<","," ","R","i","c","h","m","o","n","d",","," ","V","A">>

\* a or b
PyOr(a, b) == IF Truthy(a) THEN a ELSE b

\* Variant: the 'road, suburb' case is tested before the '&' or '/' case.
AddressLabelSuburbFirst(address) ==
    LET road   == PyOr(address.road,
                       PyOr(address.street,
                            IF address.pedestrian = None
                            THEN Str(<<>>) ELSE address.pedestrian))
        suburb == IF address.suburb = None THEN Str(<<>>) ELSE address.suburb
    IN  IF Truthy(road) /\ Truthy(suburb)
        THEN road.v \o <<",", " ">> \o suburb.v
        ELSE IF Truthy(road)
        THEN road.v
        ELSE IF Truthy(suburb)
        THEN suburb.v
        ELSE <<>>

\* The label built from the address block of a reverse-geocoding response.
AddressLabel(address) ==
    LET road   == PyOr(address.road,
                       PyOr(address.street,
                            IF address.pedestrian = None
                            THEN Str(<<>>) ELSE address.pedestrian))
        suburb == IF address.suburb = None THEN Str(<<>>) ELSE address.suburb
    IN  IF Truthy(road) /\ (Contains(road.v, <<"&">>) \/ Contains(road.v, <<"/">>))
        THEN road.v
        ELSE IF Truthy(road) /\ Truthy(suburb)
        THEN road.v \o <<",", " ">> \o suburb.v
        ELSE IF Truthy(road)
        THEN road.v
        ELSE IF Truthy(suburb)
        THEN suburb.v
        ELSE <<>>

\* Whether get_nearest_intersection reaches geolocator.reverse.
CallsReverse(lat, lon) == lat # None /\ lon # None

\* The function of that name, given what geolocator.reverse does.
get_nearest_intersection(lat, lon, resp) ==
    IF ~CallsReverse(lat, lon)
    THEN <<>>
    ELSE IF resp.k = "addr"
    THEN AddressLabel(resp.address)
    ELSE <<>>

----------------------------------------------------------------------------
(* Inputs: the tables the page may hold and what the geocoder may answer. *)

\* Street cells of the run model.
PlainStreets ==
    {<<"1","2","3","-","B","L","K"," ","M","A","I","N"," ","S","T"," ","R","I","C","H">>,
     <<"M","A","I","N"," ","S","T","/","B","R","O","A","D"," ","S","T">>}

LLStreets ==
    {<<"L","L","(","-","7","7",":","2","5",":","3","0",",","3","7",":","3","2",":","1","2",")">>,
     <<"L","L","(","X">>,
     <<"L","L","(","-","7","7",":","2","5",",","3","7",":","3","2",":","1","2",")">>,
     <<"L","L","(","-","7","7",":","2","5",":","3","0",":","9",",","3","7",":","3","2",":","1","2",")">>,
     <<"L","L","(","-","7","7",":","2","5",":","3","0",",","3","7",":","X",":","1","2",")">>}

RowKinds ==
    {[ncells |-> MinCells - 1, street |-> <<"M","A","I","N"," ","S","T">>]}
        \cup {[ncells |-> MinCells, street |-> s] : s \in PlainStreets \cup LLStreets}

\* The row at position i: its dispatch-time cell tells the rows apart.
MkRow(i, kind) ==
    [dispatch_time |-> <<Digits[i + 1]>>, ncells |-> kind.ncells, street |-> kind.street]

Tables ==
    UNION {{[i \in 1..n |-> MkRow(i, f[i])] : f \in [1..n -> RowKinds]} : n \in 0..MaxRows}

\* Pieces a street cell of the normalizer model is put together from.
Fragments ==
    {<<"-">>, <<"B","L","K">>, <<"-","B","L","K">>, <<"/">>, <<" ","R","I","C","H">>,
     <<"A">>, <<"R","I","C","H",":"," ","@","A">>, <<"B","E","T","W","E","E","N">>,
     <<" ","N","B">>, <<"L","L","(">>}

RECURSIVE Concats(_)
Concats(n) ==
    IF n = 0
    THEN {<<>>}
    ELSE Concats(n - 1) \cup {s \o f : s \in Concats(n - 1), f \in Fragments}

NormTables ==
    {<<MkRow(1, [ncells |-> MinCells, street |-> s])>> : s \in Concats(MaxFrags)}

\* geolocator.geocode: raises, finds nothing, or finds a location.
GeocodeOutcomes ==
    {[k |-> "raise"], [k |-> "none"], [k |-> "loc", lat |-> 135132, lng |-> -278730]}

Addr(road, street, pedestrian, suburb) ==
    [road |-> road, street |-> street, pedestrian |-> pedestrian, suburb |-> suburb]

\* geolocator.reverse: raises, finds nothing, answers without an address
\* block, or answers with one.
ReverseOutcomes ==
    {[k |-> "raise"], [k |-> "none"], [k |-> "noaddr"],
     [k |-> "addr", address |-> Addr(None, None, None, None)],
     [k |-> "addr", address |-> Addr(Str(<<"M","a","i","n"," ","S","t">>), None, None,
                                       Str(<<"D","o","w","n","t","o","w","n">>))]}

FieldValues ==
    {None, Str(<<>>), Str(<<"M">>), Str(<<"D">>), Str(<<"A","&","B">>), Str(<<"A","/","B">>)}

LabelResponses ==
    {[k |-> "raise"], [k |-> "none"], [k |-> "noaddr"]}
        \cup {[k |-> "addr", address |-> Addr(r, s, p, b)] :
                  r \in FieldValues, s \in FieldValues, p \in FieldValues, b \in FieldValues}

LabelCalls ==
    {[lat |-> la, lon |-> lo, resp |-> r] :
        la \in {None, Num(135132)}, lo \in {None, Num(-278730)}, r \in LabelResponses}

----------------------------------------------------------------------------
(* scrape_incidents as a state machine. *)

NoIncident == [k |-> "none"]

Idle == [k |-> "idle"]

\* The dict built from the cells of a row; lat and lng are not keys of it yet.
NewIncident(cells) ==
    [dispatch_time |-> Strip(cells.dispatch_time),
     street |-> Strip(cells.street),
     cross_street |-> <<>>,
     nearest_intersection |-> <<>>,
     lat |-> Missing,
     lng |-> Missing]

InitRun(tables) ==
    /\ table \in tables
    /\ pc = "fetch"
    /\ idx = 0
    /\ incident = NoIncident
    /\ cleaned_street = <<>>
    /\ full_address = <<>>
    /\ incidents = <<>>
    /\ result = Missing
    /\ log = <<>>
    /\ response = Idle
    /\ label = Missing

Init == InitRun(Tables)

InitNorm == InitRun(NormTables)

\* requests.get, raise_for_status and soup.find('table').
Fetch ==
    /\ pc = "fetch"
    /\ \E out \in {"error", "no_table", "ok"} :
        IF out = "ok"
        THEN /\ pc' = "row"
             /\ idx' = 1
             /\ incidents' = <<>>
             /\ UNCHANGED result
        ELSE /\ pc' = "done"
             /\ result' = None
             /\ UNCHANGED <<idx, incidents>>
    /\ UNCHANGED <<table, incident, cleaned_street, full_address, log, response, label>>

\* Variant: an LL row whose tag did not decode goes on to the forward geocoder.
LLFallsThrough(inc, cleaned) ==
    /\ incident' = inc
    /\ cleaned_street' = cleaned
    /\ full_address' = cleaned \o <<","," ","R","i","c","h","m","o","n","d",","," ","V","A">>
    /\ pc' = "geocode"
    /\ UNCHANGED <<idx, incidents>>

\* An LL row whose tag did not decode: appended as it is, and the loop continues.
LLFailed(inc, cleaned) ==
    /\ incidents' = Append(incidents, inc)
    /\ idx' = idx + 1
    /\ UNCHANGED <<pc, incident, cleaned_street, full_address>>

\* A row that goes to the forward geocoder.
ToGeocode(inc, cleaned) ==
    /\ incident' = inc
    /\ cleaned_street' = cleaned
    /\ full_address' = FullAddress(cleaned)
    /\ pc' = "geocode"
    /\ UNCHANGED <<idx, incidents>>

\* One turn of the for loop up to its first external call.
StartRow ==
    /\ pc = "row"
    /\ idx <= Len(table)
    /\ LET cells == table[idx]
       IN  IF cells.ncells >= MinCells
           THEN LET inc     == NewIncident(cells)
                    cleaned == Cleanup(inc.street)
                IN  IF StartsWith(cleaned, <<"L","L","(">>)
                    THEN LET parsed == ParseLL(inc, cleaned)
                         IN  IF parsed.lat # None
                             THEN /\ incident' = parsed
                                  /\ cleaned_street' = cleaned
                                  /\ pc' = "reverse_ll"
                                  /\ UNCHANGED <<idx, incidents, full_address>>
                             ELSE LLFailed(parsed, cleaned)
                    ELSE ToGeocode(inc, cleaned)
           ELSE /\ idx' = idx + 1
                /\ UNCHANGED <<pc, incident, cleaned_street, full_address, incidents>>
    /\ UNCHANGED <<table, result, log, response, label>>

\* The row is appended and its locals are dropped.
Emit(inc) ==
    /\ incidents' = Append(incidents, inc)
    /\ incident' = NoIncident
    /\ cleaned_street' = <<>>
    /\ full_address' = <<>>

\* geolocator.geocode(full_address) and the handling of its answer.
Geocode ==
    /\ pc = "geocode"
    /\ \E out \in GeocodeOutcomes :
        /\ log' = Append(log, [kind |-> "geocode", row |-> idx,
                               q |-> full_address, out |-> out.k])
        /\ IF out.k = "loc"
           THEN /\ incident' = [incident EXCEPT !.lat = Num(out.lat), !.lng = Num(out.lng)]
                /\ pc' = "reverse_geo"
                /\ UNCHANGED <<incidents, cleaned_street, full_address>>
           ELSE /\ Emit([incident EXCEPT !.lat = None, !.lng = None])
                /\ pc' = "sleep"
    /\ UNCHANGED <<table, idx, result, response, label>>

\* get_nearest_intersection for the row, from either call site, and the append.
Reverse ==
    /\ pc \in {"reverse_ll", "reverse_geo"}
    /\ \E resp \in ReverseOutcomes :
        LET intersection == get_nearest_intersection(incident.lat, incident.lng, resp)
        IN  /\ log' = IF CallsReverse(incident.lat, incident.lng)
                      THEN Append(log, [kind |-> "reverse", row |-> idx, out |-> resp.k])
                      ELSE log
            /\ Emit(IF intersection # <<>>
                    THEN [incident EXCEPT !.nearest_intersection = intersection]
                    ELSE incident)
    /\ IF pc = "reverse_ll"
       THEN pc' = "row" /\ idx' = idx + 1
       ELSE pc' = "sleep" /\ UNCHANGED idx
    /\ UNCHANGED <<table, result, response, label>>

\* time.sleep(1.1) at the end of a turn that went to the forward geocoder.
Sleep ==
    /\ pc = "sleep"
    /\ log' = Append(log, [kind |-> "sleep", row |-> idx])
    /\ idx' = idx + 1
    /\ pc' = "row"
    /\ UNCHANGED <<table, incident, cleaned_street, full_address, incidents, result,
                   response, label>>

\* The loop is over: the list is returned.
Finish ==
    /\ pc = "row"
    /\ idx > Len(table)
    /\ result' = [k |-> "list", v |-> incidents]
    /\ pc' = "done"
    /\ UNCHANGED <<table, idx, incident, cleaned_street, full_address, incidents, log,
                   response, label>>

Next == Fetch \/ StartRow \/ Geocode \/ Reverse \/ Sleep \/ Finish

Spec == Init /\ [][Next]_vars

SpecNorm == InitNorm /\ [][Next]_vars

----------------------------------------------------------------------------
(* get_nearest_intersection on its own. *)

InitLabel ==
    /\ response \in LabelCalls
    /\ label = Missing
    /\ table = <<>>
    /\ pc = "off"
    /\ idx = 0
    /\ incident = NoIncident
    /\ cleaned_street = <<>>
    /\ full_address = <<>>
    /\ incidents = <<>>
    /\ result = Missing
    /\ log = <<>>

CallLabel ==
    /\ label = Missing
    /\ response # Idle
    /\ label' = Str(get_nearest_intersection(response.lat, response.lon, response.resp))
    /\ UNCHANGED <<table, pc, idx, incident, cleaned_street, full_address, incidents,
                   result, log, response>>

NextLabel == CallLabel

SpecLabel == InitLabel /\ [][NextLabel]_vars

----------------------------------------------------------------------------
(* Vocabulary of the properties. *)

City == <<","," ","R","i","c","h","m","o","n","d",","," ","V","A">>

LLTag == <<"L","L","(">>

AndWord == <<" ","a","n","d"," ">>

\* The table row an emitted incident came from.
RowOf(inc) == CHOOSE r \in 1..Len(table) : table[r].dispatch_time = inc.dispatch_time

\* Indices of the rows with at least 7 cells, in table order.
RECURSIVE FullRows(_)
FullRows(n) ==
    IF n = 0
    THEN <<>>
    ELSE IF table[n].ncells >= 7 THEN Append(FullRows(n - 1), n) ELSE FullRows(n - 1)

\* Number of logged calls of a kind made for a row.
Calls(kind, r) == Cardinality({i \in 1..Len(log) : log[i].kind = kind /\ log[i].row = r})

IsCall(e) == e.kind \in {"geocode", "reverse"}

\* The LL tag of a cleaned street decodes: the envelope matches and both
\* groups convert.
Decodes(cleaned) ==
    /\ LLSearch(cleaned).ok
    /\ dms_to_dd(Strip(LLSearch(cleaned).g1)) # None
    /\ dms_to_dd(Strip(LLSearch(cleaned).g2)) # None

\* A row for which no resolution step succeeded.
AllStepsFailed(inc) ==
    LET cleaned == Cleanup(inc.street)
    IN  IF StartsWith(cleaned, LLTag)
        THEN ~Decodes(cleaned)
        ELSE \A i \in 1..Len(log) :
                 (log[i].kind = "geocode" /\ log[i].row = RowOf(inc)) => log[i].out # "loc"

----------------------------------------------------------------------------
(* C1 *)

\* C1: every forward- or reverse-geocoding call is immediately preceded by the
\* 1.1 delay: the entry before it in the log of the run is a sleep.
C1_DelayBeforeEachCall ==
    \A i \in 1..Len(log) :
        IsCall(log[i]) => (i > 1 /\ log[i - 1].kind = "sleep")

----------------------------------------------------------------------------
(* C2 *)

\* C2: once the page was fetched, scrape_incidents returns a list that holds
\* one incident for each row with at least 7 cells, in table order, and none
\* for a shorter row, whatever the decode and geocoding outcomes were; a row
\* for which every resolution step failed has lat and lng None and an empty
\* nearest_intersection.
C2_OneIncidentPerFullRow ==
    (pc = "done" /\ idx > 0) =>
        /\ result.k = "list"
        /\ LET full == FullRows(Len(table))
           IN  /\ Len(result.v) = Len(full)
               /\ \A i \in 1..Len(full) :
                    /\ result.v[i].dispatch_time = table[full[i]].dispatch_time
                    /\ result.v[i].street = Strip(table[full[i]].street)
                    /\ AllStepsFailed(result.v[i]) =>
                          /\ result.v[i].lat = None
                          /\ result.v[i].lng = None
                          /\ result.v[i].nearest_intersection = <<>>

\* A two-row table with a short first row was processed, and the one row
\* returned failed every resolution step.
C2_Witness ==
    /\ pc = "done"
    /\ Len(table) = 2
    /\ table[1].ncells < 7
    /\ result.k = "list"
    /\ Len(result.v) = 1
    /\ AllStepsFailed(result.v[1])
    /\ Calls("geocode", 2) = 1

----------------------------------------------------------------------------
(* C3 *)

\* C3: for every emitted row the calls are fixed by its path: no forward call
\* if the cleaned street starts with 'LL(' and exactly one otherwise; exactly
\* one reverse call if the row's coordinates were resolved and none otherwise.
C3_CallsPerRow ==
    \A i \in 1..Len(incidents) :
        LET inc == incidents[i]
            r   == RowOf(inc)
        IN  /\ Calls("geocode", r) =
                   (IF StartsWith(Cleanup(inc.street), LLTag) THEN 0 ELSE 1)
            /\ Calls("reverse", r) = (IF inc.lat # None /\ inc.lng # None THEN 1 ELSE 0)

\* An LL row that decoded and a plain row that the geocoder did not find
\* have both been emitted.
C3_Witness ==
    /\ Len(incidents) = 2
    /\ StartsWith(Cleanup(incidents[1].street), LLTag)
    /\ incidents[1].lat # None
    /\ Calls("reverse", 1) = 1
    /\ ~StartsWith(Cleanup(incidents[2].street), LLTag)
    /\ incidents[2].lat = None
    /\ Calls("geocode", 2) = 1

----------------------------------------------------------------------------
(* C4 *)

\* An emitted row whose cleaned street starts with 'LL(' and does not decode.
FailedLLRow(inc) ==
    /\ StartsWith(Cleanup(inc.street), LLTag)
    /\ ~Decodes(Cleanup(inc.street))

\* C4 as stated: a row whose cleaned street starts with 'LL(' and does not
\* decode is sent to forward geocoding with the cleaned string as its fragment.
C4_FailedLLIsGeocoded ==
    \A i \in 1..Len(incidents) :
        FailedLLRow(incidents[i]) =>
            \E j \in 1..Len(log) :
                /\ log[j].kind = "geocode"
                /\ log[j].row = RowOf(incidents[i])
                /\ log[j].q = Cleanup(incidents[i].street) \o City

\* C4 as amended: a row whose cleaned street starts with 'LL(' and does not
\* decode makes no forward-geocoding call and no reverse-geocoding call; it is
\* emitted with lat and lng None and an empty nearest_intersection.
C4_FailedLLIsNotGeocoded ==
    \A i \in 1..Len(incidents) :
        FailedLLRow(incidents[i]) =>
            /\ Calls("geocode", RowOf(incidents[i])) = 0
            /\ Calls("reverse", RowOf(incidents[i])) = 0
            /\ incidents[i].lat = None
            /\ incidents[i].lng = None
            /\ incidents[i].nearest_intersection = <<>>

\* Two such rows were emitted: one whose envelope does not match, one with a
\* malformed group.
C4_Witness ==
    /\ Len(incidents) = 2
    /\ FailedLLRow(incidents[1])
    /\ ~LLSearch(Cleanup(incidents[1].street)).ok
    /\ FailedLLRow(incidents[2])
    /\ LLSearch(Cleanup(incidents[2].street)).ok

----------------------------------------------------------------------------
(* C5 *)

\* A DMS group splits on ':' into exactly three numeric parts.
ThreeNumericParts(group) ==
    LET parts == Split(Strip(group), <<":">>)
    IN  /\ Len(parts) = 3
        /\ \A i \in 1..3 : ParseFloat(parts[i]) # None

\* C5: an emitted LL(<lon>,<lat>) row in which either group does not split on
\* ':' into exactly three numeric parts has lat and lng None and made no
\* reverse-geocoding call.
C5_MalformedGroupFails ==
    \A i \in 1..Len(incidents) :
        LET cleaned == Cleanup(incidents[i].street)
            m       == LLSearch(cleaned)
        IN  (/\ StartsWith(cleaned, LLTag)
             /\ m.ok
             /\ ~(ThreeNumericParts(m.g1) /\ ThreeNumericParts(m.g2)))
            => /\ incidents[i].lat = None
               /\ incidents[i].lng = None
               /\ Calls("reverse", RowOf(incidents[i])) = 0

----------------------------------------------------------------------------
(* C6 *)

EndsWithSpaceRich(s) ==
    /\ Len(s) >= 5
    /\ IsSpace(s[Len(s) - 4])
    /\ SubSeq(s, Len(s) - 3, Len(s)) = <<"R","I","C","H">>

\* C6 as stated: the cleanup applied to the cleaned street it produced
\* returns that cleaned street.
C6_CleanupIdempotent ==
    pc = "geocode" => Cleanup(cleaned_street) = cleaned_street

\* C6 as amended: the cleanup applied to the cleaned street it produced
\* returns that cleaned street whenever the cleaned street holds no '-BLK'
\* and does not end in a whitespace character followed by 'RICH'.
C6_CleanupIdempotentOnSettled ==
    (/\ pc = "geocode"
     /\ ~Contains(cleaned_street, <<"-","B","L","K">>)
     /\ ~EndsWithSpaceRich(cleaned_street))
    => Cleanup(cleaned_street) = cleaned_street

\* A street that the cleanup changed, in each of its three ways, into a
\* settled cleaned street.
C6_Witness ==
    /\ pc = "geocode"
    /\ Contains(incident.street, <<"-","B","L","K">>)
    /\ Contains(incident.street, <<"/">>)
    /\ EndsWithSpaceRich(incident.street)
    /\ ~Contains(cleaned_street, <<"-","B","L","K">>)
    /\ ~EndsWithSpaceRich(cleaned_street)
    /\ cleaned_street # <<>>

----------------------------------------------------------------------------
(* C7 *)

\* A field of the address block is present: it is there and not empty.
Present(x) == x # None /\ x.v # <<>>

\* The label C7 describes for an address block.
DescribedLabel(a) ==
    LET hasRoad == Present(a.road) \/ Present(a.street) \/ Present(a.pedestrian)
        road    == IF Present(a.road) THEN a.road.v
                   ELSE IF Present(a.street) THEN a.street.v
                   ELSE a.pedestrian.v
        hasSub  == Present(a.suburb)
    IN  CASE hasRoad /\ (\E i \in 1..Len(road) : road[i] \in {"&", "/"}) -> road
          [] hasRoad /\ hasSub  -> road \o <<",", " ">> \o a.suburb.v
          [] hasRoad            -> road
          [] hasSub             -> a.suburb.v
          [] OTHER              -> <<>>

\* C7: for a reverse-geocoding response with an address block, the label
\* get_nearest_intersection returns is the road candidate itself if it holds
\* '&' or '/', else 'road, suburb' if both are present, else the one that is
\* present, else the empty string; the road candidate is the first present of
\* road, street, pedestrian.
C7_LabelHeuristic ==
    (/\ label # Missing
     /\ response.lat # None
     /\ response.lon # None
     /\ response.resp.k = "addr")
    => label = Str(DescribedLabel(response.resp.address))

\* The call returned a road candidate taken from the street field, holding
\* '&', although a suburb was present too.
C7_Witness ==
    /\ label = Str(<<"A","&","B">>)
    /\ response.lat # None
    /\ response.lon # None
    /\ response.resp.k = "addr"
    /\ ~Present(response.resp.address.road)
    /\ response.resp.address.street = Str(<<"A","&","B">>)
    /\ Present(response.resp.address.suburb)

----------------------------------------------------------------------------
(* C8 *)

\* The text of s before its first ' and '.
BeforeFirstAnd(s) == SubSeq(s, 1, Find(s, AndWord) - 1)

\* The cleaned street of the row a logged call was made for.
CleanedOfCall(e) == Cleanup(Strip(table[e.row].street))

\* C8: every forward-geocoding call made for a row whose cleaned street does
\* not start with 'LL(' and holds ' and ' is sent the text before the first
\* ' and ' (followed by the city), also when 'RICH: @' and 'BETWEEN' occur.
C8_AndRuleFirst ==
    \A i \in 1..Len(log) :
        (/\ log[i].kind = "geocode"
         /\ ~StartsWith(CleanedOfCall(log[i]), LLTag)
         /\ Contains(CleanedOfCall(log[i]), AndWord))
        => log[i].q = BeforeFirstAnd(CleanedOfCall(log[i])) \o City

\* A call was made for a street that holds 'RICH: @', then ' and ' (from a
\* '/'), then 'BETWEEN'.
C8_Witness ==
    /\ Len(log) >= 1
    /\ log[1].kind = "geocode"
    /\ Contains(table[1].street, <<"/">>)
    /\ Contains(CleanedOfCall(log[1]), AndWord)
    /\ Contains(CleanedOfCall(log[1]), <<"R","I","C","H",":"," ","@">>)
    /\ Contains(CleanedOfCall(log[1]), <<"B","E","T","W","E","E","N">>)
    /\ log[1].q = <<"R","I","C","H",":"," ","@","A">> \o City

----------------------------------------------------------------------------
(* C9 *)

\* 'BETWEEN' occurs somewhere after an occurrence of 'RICH: @'.
BetweenFollowsMarker(s) ==
    \E i \in 1..Len(s), j \in 1..Len(s) :
        /\ StartsWithAt(s, <<"R","I","C","H",":"," ","@">>, i)
        /\ StartsWithAt(s, <<"B","E","T","W","E","E","N">>, j)
        /\ j >= i + 7

\* C9: a forward-geocoding call for a cleaned street without ' and ' that
\* holds 'RICH: @' and 'BETWEEN', but no 'BETWEEN' after 'RICH: @', is sent
\* the entire cleaned street (followed by the city).
C9_FallbackWhenMisarranged ==
    \A i \in 1..Len(log) :
        LET c == CleanedOfCall(log[i])
        IN  (/\ log[i].kind = "geocode"
             /\ ~StartsWith(c, LLTag)
             /\ ~Contains(c, AndWord)
             /\ Contains(c, <<"R","I","C","H",":"," ","@">>)
             /\ Contains(c, <<"B","E","T","W","E","E","N">>)
             /\ ~BetweenFollowsMarker(c))
            => log[i].q = c \o City

----------------------------------------------------------------------------
(* C10 *)

\* lat and lng of an emitted incident are keys of it, None together or not at
\* all, and a label goes with coordinates only.
WellFormed(inc) ==
    /\ inc.lat # Missing
    /\ inc.lng # Missing
    /\ (inc.lat = None) <=> (inc.lng = None)
    /\ inc.nearest_intersection # <<>> => (inc.lat # None /\ inc.lng # None)

\* The reverse lookup of a row appends the row with the coordinates it had.
ReverseKeepsCoordinates ==
    (pc \in {"reverse_ll", "reverse_geo"} /\ Len(incidents') = Len(incidents) + 1)
    => /\ incidents'[Len(incidents')].lat = incident.lat
       /\ incidents'[Len(incidents')].lng = incident.lng
       /\ incident.lat # None
       /\ incident.lng # None

\* C10: every emitted incident has lat and lng as keys, both None or both
\* not None, and a non-empty nearest_intersection only with coordinates; and
\* the reverse lookup, whatever it answers, leaves the resolved lat and lng
\* as they were.
C10_IncidentShape ==
    /\ [](\A i \in 1..Len(incidents) : WellFormed(incidents[i]))
    /\ [][ReverseKeepsCoordinates]_vars

\* Emitted: an LL row whose longitude group decodes and whose latitude group
\* does not, with both None; and a geocoded row whose reverse lookup gave no
\* label, with its coordinates.
C10_Witness ==
    /\ Len(incidents) = 2
    /\ LLSearch(Cleanup(incidents[1].street)).ok
    /\ dms_to_dd(Strip(LLSearch(Cleanup(incidents[1].street)).g1)) # None
    /\ incidents[1].lat = None
    /\ incidents[1].lng = None
    /\ Calls("reverse", 2) = 1
    /\ incidents[2].nearest_intersection = <<>>
    /\ incidents[2].lat = Num(135132)
    /\ incidents[2].lng = Num(-278730)

====
